---- MODULE Spec2Model ----
(***************************************************************************)
(* Model of src/etl_ev_population.py: a sequential pandas script that      *)
(* reads the EV population extract, keeps the WA rows, cleans and imputes  *)
(* them, splits them into five dimension tables and one fact table and     *)
(* writes the six tables to a SQL sink.                                    *)
(*                                                                         *)
(* Values.  A cell of an object (string) column is a string, and the       *)
(* missing value of such a column is NA.  A cell of a float64 column is    *)
(* <<v>> or the missing value NaN = <<>>; v is a fixed-point integer, the  *)
(* float times Unit, so that the medians of the cascade are exact.  The    *)
(* text of vehicle_location (and of latitude/longitude cut out of it) is   *)
(* a sequence of one-character strings, its missing value being NaN too    *)
(* (read_csv turns an empty field into a missing value, so no text is      *)
(* empty).  model_year is an integer after the cast.                       *)
(*                                                                         *)
(* A DataFrame is [index |-> labels, rows |-> records]: the script relies  *)
(* on what each pandas call does to the index (boolean selection keeps     *)
(* the labels, merge and reset_index renumber from 0).                     *)
(*                                                                         *)
(* pandas semantics are those of pandas 1.5 to 2.x, in which               *)
(* dt[col].replace(..., inplace=True) updates dt.                          *)
(***************************************************************************)
EXTENDS Integers, Sequences, FiniteSets, TLC

VARIABLES pc, csv, dt,
          Dim_Vehicle_model, Dim_Location, Dim_Policy_Eligibility,
          Dim_District, Dim_Utility, Fact_EV,
          sink, writes, error

vars == <<pc, csv, dt, Dim_Vehicle_model, Dim_Location, Dim_Policy_Eligibility,
          Dim_District, Dim_Utility, Fact_EV, sink, writes, error>>

\* Largest number of rows of the input file.
MaxRows == 3

\* ---------------------------------------------------------------- values

NA == "NaN"
NaN == <<>>
Unit == 2 * 2 * 2

\* The numeric literals of the inputs and the float each parses to
\* (astype(float) of a string is float(s): several texts give one number).
FloatLiterals ==
    { <<"0", 0>>, <<"0.0", 0>>, <<"30", 30>>, <<"150", 150>>,
      <<"45000", 45000>>, <<"4.5e4", 45000>>, <<"31000", 31000>> }

IsFloatText(s) == \E p \in FloatLiterals : p[1] = s

\* astype(float) of one cell: a missing value stays missing.
ParseFloat(s) ==
    IF s = NA THEN NaN
    ELSE LET p == CHOOSE q \in FloatLiterals : q[1] = s IN <<p[2] * Unit>>

\* astype(int) of one cell is int(s): no missing value, no decimal point.
IntLiterals == { <<"2020", 2020>>, <<"2021", 2021>>, <<" 2021", 2021>> }

IsIntText(s) == \E p \in IntLiterals : p[1] = s

ParseInt(s) == (CHOOSE q \in IntLiterals : q[1] = s)[2]

\* ---------------------------------------------------------------- frames

EmptyFrame == [index |-> <<>>, rows |-> <<>>]

RangeIndex(n) == [i \in 1..n |-> i - 1]

RECURSIVE Ascending(_)
Ascending(S) ==
    IF S = {} THEN <<>>
    ELSE LET m == CHOOSE x \in S : \A y \in S : x <= y
         IN  <<m>> \o Ascending(S \ {m})

\* df[mask]: the rows at the positions of `keep`, each with its own label.
Take(df, keep) ==
    LET p == Ascending(keep)
    IN  [index |-> [k \in 1..Len(p) |-> df.index[p[k]]],
         rows  |-> [k \in 1..Len(p) |-> df.rows[p[k]]]]

Project(row, cols) == [c \in cols |-> row[c]]

\* df[cols]
Columns(df, cols) ==
    [index |-> df.index,
     rows  |-> [i \in 1..Len(df.rows) |-> Project(df.rows[i], cols)]]

\* df[col] as a Series
Series(df, col) ==
    [index |-> df.index, values |-> [i \in 1..Len(df.rows) |-> df.rows[i][col]]]

\* df[col] = series: the values are aligned on the index labels; a label the
\* series lacks gets the missing value.
SetColumn(df, col, s) ==
    [df EXCEPT !.rows =
        [i \in 1..Len(df.rows) |->
            LET at == {k \in 1..Len(s.index) : s.index[k] = df.index[i]}
            IN  (col :> (IF at = {} THEN NaN ELSE s.values[CHOOSE k \in at : TRUE]))
                @@ df.rows[i]]]

\* ------------------------------------------------------------ 1. extract

\* dt = dt[dt['State'] == 'WA'] on the frame read_csv returns (RangeIndex).
FilterWA(file) ==
    Take([index |-> RangeIndex(Len(file)), rows |-> file],
         {i \in 1..Len(file) : file[i]["State"] = "WA"})

RenameMap ==
    ("VIN (1-10)" :> "vin") @@ ("Electric Vehicle Type" :> "ev_type")
    @@ ("Clean Alternative Fuel Vehicle (CAFV) Eligibility" :> "cafv_eligibility")
    @@ ("Electric Range" :> "electric_range") @@ ("State" :> "state")
    @@ ("County" :> "county") @@ ("City" :> "city") @@ ("Base MSRP" :> "base_msrp")
    @@ ("Model Year" :> "model_year") @@ ("Make" :> "make") @@ ("Model" :> "model")
    @@ ("Postal Code" :> "postal_code")
    @@ ("Legislative District" :> "legislative_district")
    @@ ("DOL Vehicle ID" :> "dol_vehicle_id")
    @@ ("Vehicle Location" :> "vehicle_location")
    @@ ("Electric Utility" :> "electric_utility")
    @@ ("2020 Census Tract" :> "census_tract")

NewName(c) == IF c \in DOMAIN RenameMap THEN RenameMap[c] ELSE c

\* dt.rename(columns=..., inplace=True)
Rename(df) ==
    [df EXCEPT !.rows =
        [i \in 1..Len(df.rows) |->
            [n \in {NewName(c) : c \in DOMAIN df.rows[i]} |->
                df.rows[i][CHOOSE c \in DOMAIN df.rows[i] : NewName(c) = n]]]]

\* The three astype casts succeed when every retained cell parses.
CastOk(df) ==
    \A i \in 1..Len(df.rows) :
        /\ df.rows[i].electric_range = NA \/ IsFloatText(df.rows[i].electric_range)
        /\ df.rows[i].base_msrp = NA \/ IsFloatText(df.rows[i].base_msrp)
        /\ df.rows[i].model_year # NA /\ IsIntText(df.rows[i].model_year)

AsType(df) ==
    [df EXCEPT !.rows =
        [i \in 1..Len(df.rows) |->
            [df.rows[i] EXCEPT !.electric_range = ParseFloat(@),
                               !.base_msrp = ParseFloat(@),
                               !.model_year = ParseInt(@)]]]

\* ------------------------------------------------- 2. clean and transform

PointEmpty == <<"P", "O", "I", "N", "T", " ", "E", "M", "P", "T", "Y">>

\* dt['vehicle_location'].replace(np.nan, 'POINT EMPTY', inplace=True)
FillLocation(df) ==
    [df EXCEPT !.rows =
        [i \in 1..Len(df.rows) |->
            [df.rows[i] EXCEPT !.vehicle_location =
                IF @ = NaN THEN PointEmpty ELSE @]]]

\* The pattern r'POINT \(([-\d\.]+) ([-\d\.]+)\)': a literal head, a run of
\* token characters, one blank, a second run, a closing parenthesis.
PatternHead == <<"P", "O", "I", "N", "T", " ", "(">>

TokenChars == {"-", ".", "0", "1", "2", "3", "4", "5", "6", "7", "8", "9"}

Least(S) == CHOOSE x \in S : \A y \in S : x <= y

\* Where the greedy run [-\d\.]+ that starts at position i stops: the first
\* position from i on that holds no token character (the blank and the
\* parenthesis are none, so giving characters back never helps a match).
RunEnd(t, i) ==
    LET stops == {j \in i..Len(t) : t[j] \notin TokenChars}
    IN  IF stops = {} THEN Len(t) + 1 ELSE Least(stops)

GroupBounds(t, i) ==
    LET a == i + Len(PatternHead)
        j == RunEnd(t, a)
        k == RunEnd(t, j + 1)
    IN  [a |-> a, j |-> j, k |-> k]

\* The pattern matches the text from position i on.
MatchAt(t, i) ==
    LET b == GroupBounds(t, i)
    IN  /\ b.a - 1 <= Len(t)
        /\ SubSeq(t, i, b.a - 1) = PatternHead
        /\ b.j > b.a /\ b.j <= Len(t) /\ t[b.j] = " "
        /\ b.k > b.j + 1 /\ b.k <= Len(t) /\ t[b.k] = ")"

\* str_extract with the two groups handed out in the other order.
str_extract_swapped(t) ==
    IF t = NaN THEN <<NaN, NaN>>
    ELSE LET starts == {i \in 1..Len(t) : MatchAt(t, i)}
         IN  IF starts = {} THEN <<NaN, NaN>>
             ELSE LET b == GroupBounds(t, Least(starts))
                  IN  <<SubSeq(t, b.j + 1, b.k - 1), SubSeq(t, b.a, b.j - 1)>>

\* Series.str.extract on one cell: the two groups of the leftmost match
\* (re.search), or two missing values; a missing cell gives missing values.
str_extract(t) ==
    IF t = NaN THEN <<NaN, NaN>>
    ELSE LET starts == {i \in 1..Len(t) : MatchAt(t, i)}
         IN  IF starts = {} THEN <<NaN, NaN>>
             ELSE LET b == GroupBounds(t, Least(starts))
                  IN  <<SubSeq(t, b.a, b.j - 1), SubSeq(t, b.j + 1, b.k - 1)>>

\* dt[['latitude','longitude']] = dt['vehicle_location'].str.extract(...)
GeoColumns(df) ==
    [df EXCEPT !.rows =
        [i \in 1..Len(df.rows) |->
            LET g == str_extract(df.rows[i].vehicle_location)
            IN  [latitude |-> g[1], longitude |-> g[2]] @@ df.rows[i]]]

\* dt[col].replace({0: np.nan}, inplace=True)
ZeroToNaN(df, col) ==
    [df EXCEPT !.rows =
        [i \in 1..Len(df.rows) |->
            [df.rows[i] EXCEPT ![col] = IF @ = <<0>> THEN NaN ELSE @]]]

\* Series.median(): missing values are skipped; the middle value, or the mean
\* of the two middle values; missing when nothing is left.
Median(values) ==
    LET seen == SelectSeq(values, LAMBDA v : v # NaN)
        srt  == SortSeq([i \in 1..Len(seen) |-> seen[i][1]], LAMBDA a, b : a < b)
        n    == Len(srt)
    IN  IF n = 0 THEN NaN
        ELSE IF n % 2 = 1 THEN <<srt[(n + 1) \div 2]>>
        ELSE <<(srt[n \div 2] + srt[n \div 2 + 1]) \div 2>>

\* x.fillna(value) on one cell
FillNa(v, value) == IF v = NaN THEN value ELSE v

\* dt.groupby(keys)[col].transform(lambda x: x.fillna(x.median())), with the
\* default dropna=True: a row with a missing key is in no group, and the
\* result, which has the index of the input, holds a missing value for it.
GroupTransform(df, keys, col) ==
    [index  |-> df.index,
     values |-> [i \in 1..Len(df.rows) |->
        IF \E k \in keys : df.rows[i][k] = NA THEN NaN
        ELSE LET g == Ascending({j \in 1..Len(df.rows) :
                          \A k \in keys : df.rows[j][k] = df.rows[i][k]})
                 x == [n \in 1..Len(g) |-> df.rows[g[n]][col]]
             IN  FillNa(df.rows[i][col], Median(x))]]

\* dt[col] = dt[col].fillna(dt[col].median())
GlobalFill(df, col) ==
    LET s == Series(df, col)
    IN  SetColumn(df, col,
            [s EXCEPT !.values =
                [i \in 1..Len(s.values) |-> FillNa(s.values[i], Median(s.values))]])

\* One turn of the loop of fill_missing.
FillColumn(df, col) ==
    LET d1 == SetColumn(df, col, GroupTransform(df, {"make", "model"}, col))
        d2 == SetColumn(d1, col, GroupTransform(d1, {"make"}, col))
    IN  GlobalFill(d2, col)

RECURSIVE fill_missing(_, _)
fill_missing(df, cols_list) ==
    IF cols_list = <<>> THEN df
    ELSE fill_missing(FillColumn(df, Head(cols_list)), Tail(cols_list))

ImputedColumns == <<"base_msrp", "electric_range">>

EvTypeCodes ==
    ("Battery Electric Vehicle (BEV)" :> "1")
    @@ ("Plug-in Hybrid Electric Vehicle (PHEV)" :> "2")

CafvCodes ==
    ("Clean Alternative Fuel Vehicle Eligible" :> "1")
    @@ ("Not eligible due to low battery range" :> "2")
    @@ ("Eligibility unknown as battery range has not been researched" :> "3")

\* ReplaceCell turning a value outside the known literals into a missing
\* value (what Series.map(dict) does).
ReplaceCellOrMissing(v, codes) == IF v \in DOMAIN codes THEN codes[v] ELSE NA

\* Series.replace(dict) on one cell of an object column: an exact match of a
\* key is replaced, anything else is kept.
ReplaceCell(v, codes) == IF v \in DOMAIN codes THEN codes[v] ELSE v

Encode(df) ==
    [df EXCEPT !.rows =
        [i \in 1..Len(df.rows) |->
            [df.rows[i] EXCEPT !.ev_type = ReplaceCell(@, EvTypeCodes),
                               !.cafv_eligibility = ReplaceCell(@, CafvCodes)]]]

\* ------------------------------------------------------------- 3. load

\* drop_duplicates that drops nothing.
keep_all(df) == df

\* drop_duplicates that drops a row only when it repeats the row before it.
drop_adjacent(df) ==
    Take(df, {i \in 1..Len(df.rows) : i = 1 \/ df.rows[i - 1] # df.rows[i]})

\* df.drop_duplicates(): the first row of each distinct combination is kept,
\* with its label; two missing values count as equal.
drop_duplicates(df) ==
    Take(df, {i \in 1..Len(df.rows) :
                \A j \in 1..(i - 1) : df.rows[j] # df.rows[i]})

\* df.reset_index(drop=True)
reset_index(df) == [df EXCEPT !.index = RangeIndex(Len(df.rows))]

\* df[idcol] = df.index + 1
IndexPlusOne(df, idcol) ==
    [df EXCEPT !.rows =
        [i \in 1..Len(df.rows) |-> (idcol :> (df.index[i] + 1)) @@ df.rows[i]]]

\* Dim_X = dt[cols].drop_duplicates().reset_index(drop=True)
\* Dim_X[idcol] = Dim_X.index + 1
Dimension(df, cols, idcol) ==
    IndexPlusOne(reset_index(drop_duplicates(Columns(df, cols))), idcol)

\* A missing value of column c.
IsMissing(c, v) ==
    IF c \in {"electric_range", "base_msrp", "latitude", "longitude"} THEN v = NaN
    ELSE IF c = "model_year" THEN FALSE
    ELSE v = NA

\* KeysMatch with SQL's rule: a missing value matches nothing.
KeysMatchSql(l, r, on) == \A c \in on : l[c] = r[c] /\ ~IsMissing(c, l[c])

\* The join condition of merge: equal on every key column, a missing value
\* matching a missing value (pandas, unlike SQL).
KeysMatch(l, r, on) == \A c \in on : l[c] = r[c]

\* The rows left.merge(right, on=on, how='left') makes of the left rows: one
\* per matching right row, in the right's order, or one with a missing id
\* when none matches.  The id of a merged row is a float cell.
RECURSIVE MergeRows(_, _, _, _)
MergeRows(lrows, rrows, on, idcol) ==
    IF lrows = <<>> THEN <<>>
    ELSE LET l == Head(lrows)
             m == SelectSeq(rrows, LAMBDA r : KeysMatch(l, r, on))
             out == IF m = <<>> THEN << (idcol :> NaN) @@ l >>
                    ELSE [k \in 1..Len(m) |-> (idcol :> <<m[k][idcol]>>) @@ l]
         IN  out \o MergeRows(Tail(lrows), rrows, on, idcol)

\* MergeIndex keeping the labels of the left frame.
MergeIndexKept(left, n) == left.index

\* The index merge gives its result: a fresh RangeIndex.
MergeIndex(left, n) == RangeIndex(n)

\* dt.merge(Dim_X, on=on, how='left')
merge(left, right, on, idcol) ==
    LET rows == MergeRows(left.rows, right.rows, on, idcol)
    IN  [index |-> MergeIndex(left, Len(rows)), rows |-> rows]

VehicleModelColumns ==
    {"make", "model", "model_year", "ev_type", "electric_range", "base_msrp"}

LocationColumns ==
    {"state", "county", "city", "postal_code", "latitude", "longitude"}

PolicyColumns == {"cafv_eligibility"}

DistrictColumns == {"legislative_district", "census_tract"}

UtilityColumns == {"electric_utility"}

FactColumns ==
    {"vin", "dol_vehicle_id", "vehicle_model_id", "location_id", "policy_id",
     "district_id", "utility_id"}

\* Fact_EV = dt[[...]].copy(); Fact_EV['ev_id'] = Fact_EV.index + 1
FactFrame(df) == IndexPlusOne(Columns(df, FactColumns), "ev_id")

\* LoadOrder with the fact table written first.
LoadOrderFactFirst ==
    <<"fact_ev", "dim_vehicle_model", "dim_location", "dim_policy_eligibility",
      "dim_district", "dim_utility">>

\* The to_sql calls, in the order of the script.
LoadOrder ==
    <<"dim_vehicle_model", "dim_location", "dim_policy_eligibility",
      "dim_district", "dim_utility", "fact_ev">>

SinkTables == {LoadOrder[i] : i \in DOMAIN LoadOrder}

\* The frame each to_sql call writes.
FrameOf(name) ==
    CASE name = "dim_vehicle_model" -> Dim_Vehicle_model
      [] name = "dim_location" -> Dim_Location
      [] name = "dim_policy_eligibility" -> Dim_Policy_Eligibility
      [] name = "dim_district" -> Dim_District
      [] name = "dim_utility" -> Dim_Utility
      [] name = "fact_ev" -> Fact_EV

\* What the sink holds of a table no run has replaced.
Untouched == [replaced |-> FALSE, rows |-> <<>>]

\* ------------------------------------------------------------ the script

\* Lines 18-19: read_csv and the State == 'WA' selection.
ReadCsv ==
    /\ pc = "read_csv"
    /\ dt' = FilterWA(csv)
    /\ pc' = "rename"
    /\ UNCHANGED <<csv, Dim_Vehicle_model, Dim_Location, Dim_Policy_Eligibility,
                   Dim_District, Dim_Utility, Fact_EV, sink, writes, error>>

\* Lines 29-46.
RenameColumns ==
    /\ pc = "rename"
    /\ dt' = Rename(dt)
    /\ pc' = "astype"
    /\ UNCHANGED <<csv, Dim_Vehicle_model, Dim_Location, Dim_Policy_Eligibility,
                   Dim_District, Dim_Utility, Fact_EV, sink, writes, error>>

\* Lines 50-52, every cell numeric.
CastTypes ==
    /\ pc = "astype"
    /\ CastOk(dt)
    /\ dt' = AsType(dt)
    /\ pc' = "extract"
    /\ UNCHANGED <<csv, Dim_Vehicle_model, Dim_Location, Dim_Policy_Eligibility,
                   Dim_District, Dim_Utility, Fact_EV, sink, writes, error>>

\* Lines 50-52, some cell not numeric: astype raises and the script ends.
CastFail ==
    /\ pc = "astype"
    /\ ~CastOk(dt)
    /\ pc' = "failed"
    /\ error' = "ValueError"
    /\ UNCHANGED <<csv, dt, Dim_Vehicle_model, Dim_Location,
                   Dim_Policy_Eligibility, Dim_District, Dim_Utility, Fact_EV,
                   sink, writes>>

\* Lines 72-73.
GeoExtract ==
    /\ pc = "extract"
    /\ dt' = GeoColumns(FillLocation(dt))
    /\ pc' = "replace_zero"
    /\ UNCHANGED <<csv, Dim_Vehicle_model, Dim_Location, Dim_Policy_Eligibility,
                   Dim_District, Dim_Utility, Fact_EV, sink, writes, error>>

\* Lines 82-83.
ReplaceZero ==
    /\ pc = "replace_zero"
    /\ dt' = ZeroToNaN(ZeroToNaN(dt, "electric_range"), "base_msrp")
    /\ pc' = "fill_missing"
    /\ UNCHANGED <<csv, Dim_Vehicle_model, Dim_Location, Dim_Policy_Eligibility,
                   Dim_District, Dim_Utility, Fact_EV, sink, writes, error>>

\* Line 92.
FillMissing ==
    /\ pc = "fill_missing"
    /\ dt' = fill_missing(dt, ImputedColumns)
    /\ pc' = "encode"
    /\ UNCHANGED <<csv, Dim_Vehicle_model, Dim_Location, Dim_Policy_Eligibility,
                   Dim_District, Dim_Utility, Fact_EV, sink, writes, error>>

\* Lines 96-101.
EncodeCategories ==
    /\ pc = "encode"
    /\ dt' = Encode(dt)
    /\ pc' = "dim_vehicle_model"
    /\ UNCHANGED <<csv, Dim_Vehicle_model, Dim_Location, Dim_Policy_Eligibility,
                   Dim_District, Dim_Utility, Fact_EV, sink, writes, error>>

\* Lines 108-110.
BuildVehicleModel ==
    /\ pc = "dim_vehicle_model"
    /\ Dim_Vehicle_model' = Dimension(dt, VehicleModelColumns, "vehicle_model_id")
    /\ dt' = merge(dt, Dim_Vehicle_model', VehicleModelColumns, "vehicle_model_id")
    /\ pc' = "dim_location"
    /\ UNCHANGED <<csv, Dim_Location, Dim_Policy_Eligibility, Dim_District,
                   Dim_Utility, Fact_EV, sink, writes, error>>

\* Lines 113-115.
BuildLocation ==
    /\ pc = "dim_location"
    /\ Dim_Location' = Dimension(dt, LocationColumns, "location_id")
    /\ dt' = merge(dt, Dim_Location', LocationColumns, "location_id")
    /\ pc' = "dim_policy_eligibility"
    /\ UNCHANGED <<csv, Dim_Vehicle_model, Dim_Policy_Eligibility, Dim_District,
                   Dim_Utility, Fact_EV, sink, writes, error>>

\* Lines 118-120.
BuildPolicyEligibility ==
    /\ pc = "dim_policy_eligibility"
    /\ Dim_Policy_Eligibility' = Dimension(dt, PolicyColumns, "policy_id")
    /\ dt' = merge(dt, Dim_Policy_Eligibility', PolicyColumns, "policy_id")
    /\ pc' = "dim_district"
    /\ UNCHANGED <<csv, Dim_Vehicle_model, Dim_Location, Dim_District,
                   Dim_Utility, Fact_EV, sink, writes, error>>

\* Lines 123-125.
BuildDistrict ==
    /\ pc = "dim_district"
    /\ Dim_District' = Dimension(dt, DistrictColumns, "district_id")
    /\ dt' = merge(dt, Dim_District', DistrictColumns, "district_id")
    /\ pc' = "dim_utility"
    /\ UNCHANGED <<csv, Dim_Vehicle_model, Dim_Location, Dim_Policy_Eligibility,
                   Dim_Utility, Fact_EV, sink, writes, error>>

\* Lines 128-130.
BuildUtility ==
    /\ pc = "dim_utility"
    /\ Dim_Utility' = Dimension(dt, UtilityColumns, "utility_id")
    /\ dt' = merge(dt, Dim_Utility', UtilityColumns, "utility_id")
    /\ pc' = "fact_ev"
    /\ UNCHANGED <<csv, Dim_Vehicle_model, Dim_Location, Dim_Policy_Eligibility,
                   Dim_District, Fact_EV, sink, writes, error>>

\* Lines 133-134.
BuildFact ==
    /\ pc = "fact_ev"
    /\ Fact_EV' = FactFrame(dt)
    /\ pc' = "config"
    /\ UNCHANGED <<csv, dt, Dim_Vehicle_model, Dim_Location,
                   Dim_Policy_Eligibility, Dim_District, Dim_Utility, sink,
                   writes, error>>

\* Lines 139-158, db_config.ini read and complete: the engine is created
\* (create_engine opens no connection).
ReadConfig ==
    /\ pc = "config"
    /\ pc' = "to_sql"
    /\ UNCHANGED <<csv, dt, Dim_Vehicle_model, Dim_Location,
                   Dim_Policy_Eligibility, Dim_District, Dim_Utility, Fact_EV,
                   sink, writes, error>>

\* Lines 142-154, the file absent (FileNotFoundError) or without the section
\* or one of its keys (KeyError).
ConfigFail ==
    /\ pc = "config"
    /\ pc' = "failed"
    /\ error' \in {"FileNotFoundError", "KeyError"}
    /\ UNCHANGED <<csv, dt, Dim_Vehicle_model, Dim_Location,
                   Dim_Policy_Eligibility, Dim_District, Dim_Utility, Fact_EV,
                   sink, writes>>

\* Lines 162-167: the next to_sql(name, engine, if_exists='replace',
\* index=False) replaces the table by the frame's rows.
ToSql ==
    /\ pc = "to_sql"
    /\ LET name == LoadOrder[Len(writes) + 1]
       IN  /\ sink' = [sink EXCEPT ![name] =
                          [replaced |-> TRUE, rows |-> FrameOf(name).rows]]
           /\ writes' = Append(writes, name)
    /\ pc' = IF Len(writes) + 1 = Len(LoadOrder) THEN "done" ELSE "to_sql"
    /\ UNCHANGED <<csv, dt, Dim_Vehicle_model, Dim_Location,
                   Dim_Policy_Eligibility, Dim_District, Dim_Utility, Fact_EV,
                   error>>

\* Lines 162-167: the store cannot be reached and the next to_sql raises.
ToSqlFail ==
    /\ pc = "to_sql"
    /\ pc' = "failed"
    /\ error' = "OperationalError"
    /\ UNCHANGED <<csv, dt, Dim_Vehicle_model, Dim_Location,
                   Dim_Policy_Eligibility, Dim_District, Dim_Utility, Fact_EV,
                   sink, writes>>

Next ==
    \/ ReadCsv
    \/ RenameColumns
    \/ CastTypes
    \/ CastFail
    \/ GeoExtract
    \/ ReplaceZero
    \/ FillMissing
    \/ EncodeCategories
    \/ BuildVehicleModel
    \/ BuildLocation
    \/ BuildPolicyEligibility
    \/ BuildDistrict
    \/ BuildUtility
    \/ BuildFact
    \/ ReadConfig
    \/ ConfigFail
    \/ ToSql
    \/ ToSqlFail

\* ------------------------------------------------------------ the inputs

BEV == "Battery Electric Vehicle (BEV)"
PHEV == "Plug-in Hybrid Electric Vehicle (PHEV)"
Eligible == "Clean Alternative Fuel Vehicle Eligible"
NotEligible == "Not eligible due to low battery range"
EligibilityUnknown == "Eligibility unknown as battery range has not been researched"

\* 'POINT (-122.3 47.6)'
Seattle ==
    PatternHead \o <<"-", "1", "2", "2", ".", "3", " ", "4", "7", ".", "6", ")">>

\* One row of the file as read_csv(dtype=str) returns it.
BaseRow ==
    ("VIN (1-10)" :> "5YJ3E1EA7L") @@ ("County" :> "King") @@ ("City" :> "Seattle")
    @@ ("State" :> "WA") @@ ("Postal Code" :> "98101") @@ ("Model Year" :> "2020")
    @@ ("Make" :> "TESLA") @@ ("Model" :> "MODEL 3")
    @@ ("Electric Vehicle Type" :> BEV)
    @@ ("Clean Alternative Fuel Vehicle (CAFV) Eligibility" :> Eligible)
    @@ ("Electric Range" :> "150") @@ ("Base MSRP" :> "45000")
    @@ ("Legislative District" :> "43") @@ ("DOL Vehicle ID" :> "1001")
    @@ ("Vehicle Location" :> Seattle)
    @@ ("Electric Utility" :> "CITY OF SEATTLE")
    @@ ("2020 Census Tract" :> "53033005302")

\* A row whose model year is no number.
BadRow == [BaseRow EXCEPT !["Model Year"] = "abc", !["DOL Vehicle ID"] = "1099"]

\* The files of at most MaxRows rows drawn from `rows`.
Files(rows) == UNION {[1..n -> rows] : n \in 1..MaxRows}

\* Rows for the dimension and fact tables: repeated combinations, a repeated
\* vin, a row of another state, missing values in defining columns.
DimRows ==
    { BaseRow,
      [BaseRow EXCEPT !["Base MSRP"] = "0", !["DOL Vehicle ID"] = "1002"],
      [BaseRow EXCEPT !["State"] = "CA", !["DOL Vehicle ID"] = "1003"],
      [BaseRow EXCEPT !["Vehicle Location"] = NaN,
                      !["Legislative District"] = NA,
                      !["Electric Utility"] = NA,
                      !["DOL Vehicle ID"] = "1004"],
      [BaseRow EXCEPT !["VIN (1-10)"] = "KNDCC3LG5K",
                      !["Make"] = "KIA", !["Model"] = "NIRO",
                      !["Model Year"] = "2021",
                      !["Electric Vehicle Type"] = PHEV,
                      !["Clean Alternative Fuel Vehicle (CAFV) Eligibility"] = "Unknown text",
                      !["Electric Range"] = NA, !["Base MSRP"] = NA,
                      !["County"] = "Pierce", !["City"] = "Tacoma",
                      !["Postal Code"] = "98402",
                      !["Legislative District"] = "27",
                      !["2020 Census Tract"] = NA,
                      !["DOL Vehicle ID"] = "1005"],
      [BaseRow EXCEPT !["Make"] = NA, !["Model"] = NA,
                      !["Electric Range"] = "30",
                      !["DOL Vehicle ID"] = "1006"],
      BadRow }

\* Rows for the imputer: the groups (TESLA, MODEL 3), (TESLA, MODEL Y) and
\* (KIA, NIRO), a missing make, a missing model; the column under test
\* observed, zero or missing.
ImputeKeys ==
    { <<"TESLA", "MODEL 3">>, <<"TESLA", "MODEL Y">>, <<"KIA", "NIRO">>,
      <<NA, "MODEL 3">>, <<"TESLA", NA>> }

ImputeValues == {NA, "0.0", "45000", "31000"}

ImputeRows(column) ==
    { [BaseRow EXCEPT !["Make"] = k[1], !["Model"] = k[2], ![column] = v] :
        k \in ImputeKeys, v \in ImputeValues }

\* Rows for the encoder: the five known literals, near misses, a code, a
\* missing value.
EncodeRows ==
    { [BaseRow EXCEPT !["Electric Vehicle Type"] = p[1],
                      !["Clean Alternative Fuel Vehicle (CAFV) Eligibility"] = p[2]] :
        p \in { <<BEV, Eligible>>, <<PHEV, NotEligible>>,
                <<"battery electric vehicle (bev)", EligibilityUnknown>>,
                <<NA, "Unknown text">>,
                <<"Battery Electric Vehicle (BEV) ", NA>>,
                <<"2", "1">> } }

\* Texts of vehicle_location: a point, no text, an unclosed point, a point
\* inside a longer text, two blanks, a letter for a token, no blank after
\* POINT, tokens that are no numbers.
LocationTexts ==
    { Seattle,
      NaN,
      PatternHead \o <<"1", " ", "2">>,
      <<"x">> \o PatternHead \o <<"3", " ", "4", ")", "y">>,
      PatternHead \o <<"1", " ", " ", "2", ")">>,
      PatternHead \o <<"a", " ", "2", ")">>,
      <<"P", "O", "I", "N", "T", "(", "1", " ", "2", ")">>,
      PatternHead \o <<"-", ".", " ", "7", "-", ")">> }

GeoRows == { [BaseRow EXCEPT !["Vehicle Location"] = t] : t \in LocationTexts }

InitWith(files) ==
    /\ pc = "read_csv"
    /\ csv \in files
    /\ dt = EmptyFrame
    /\ Dim_Vehicle_model = EmptyFrame
    /\ Dim_Location = EmptyFrame
    /\ Dim_Policy_Eligibility = EmptyFrame
    /\ Dim_District = EmptyFrame
    /\ Dim_Utility = EmptyFrame
    /\ Fact_EV = EmptyFrame
    /\ sink = [t \in SinkTables |-> Untouched]
    /\ writes = <<>>
    /\ error = "none"

Init == InitWith(Files(DimRows))

InitImpute ==
    InitWith(Files(ImputeRows("Base MSRP") \cup {BadRow})
             \cup Files(ImputeRows("Electric Range") \cup {BadRow}))

InitEncode == InitWith(Files(EncodeRows \cup {BadRow}))

InitGeo == InitWith(Files(GeoRows \cup {BadRow}))

Spec == Init /\ [][Next]_vars

SpecImpute == InitImpute /\ [][Next]_vars

SpecEncode == InitEncode /\ [][Next]_vars

SpecGeo == InitGeo /\ [][Next]_vars

\* ------------------------------------------------------------ properties

\* The statements of the script in the order it runs them.
Script ==
    <<"read_csv", "rename", "astype", "extract", "replace_zero", "fill_missing",
      "encode", "dim_vehicle_model", "dim_location", "dim_policy_eligibility",
      "dim_district", "dim_utility", "fact_ev", "config", "to_sql", "done">>

StageNo(p) == CHOOSE n \in 1..Len(Script) : Script[n] = p

\* The statement the run is at, or was at when it raised.
Position ==
    IF pc # "failed" THEN StageNo(pc)
    ELSE IF error = "ValueError" THEN StageNo("astype")
    ELSE IF error \in {"FileNotFoundError", "KeyError"} THEN StageNo("config")
    ELSE StageNo("to_sql")

\* The statement `stage` has run.
Past(stage) == Position > StageNo(stage)

\* The source rows the jurisdiction filter retains, in file order.
WARows == SelectSeq(csv, LAMBDA r : r["State"] = "WA")

\* A cell of the file that holds an observation: a number other than zero.
Observed(text) == text # NA /\ ParseFloat(text) # <<0>>

TreatedColumns == {"Electric Range", "Base MSRP"}

\* C1 (imputation completeness): once fill_missing has run, a treated column
\* with at least one non-null, non-zero observation among the retained rows
\* has no null left in any row.
C1_ImputationComplete ==
    Past("fill_missing") =>
        \A col \in TreatedColumns :
            (\E i \in 1..Len(WARows) : Observed(WARows[i][col]))
            => \A i \in 1..Len(dt.rows) : dt.rows[i][NewName(col)] # NaN

\* C10 (the imputer changes only missing cells): once fill_missing has run,
\* every cell of a treated column that was non-null and non-zero before it
\* still holds its value.
C10_ObservedKept ==
    Past("fill_missing") =>
        \A col \in TreatedColumns : \A i \in 1..Len(WARows) :
            Observed(WARows[i][col])
            => dt.rows[i][NewName(col)] = ParseFloat(WARows[i][col])

\* The cascade as the claim C6 states it, on the retained rows: the column
\* with zero taken as missing, then each missing cell filled from its
\* (make, model) rows, then from its make rows, then from all rows.
Input(col) ==
    [i \in 1..Len(WARows) |->
        IF Observed(WARows[i][col]) THEN ParseFloat(WARows[i][col]) ELSE NaN]

Sharing(i, keys) ==
    Ascending({j \in 1..Len(WARows) : \A k \in keys : WARows[j][k] = WARows[i][k]})

FilledWithin(x, keys) ==
    [i \in 1..Len(x) |->
        IF x[i] # NaN THEN x[i]
        ELSE IF \E k \in keys : WARows[i][k] = NA THEN NaN
        ELSE LET g == Sharing(i, keys)
             IN  Median([n \in 1..Len(g) |-> x[g[n]]])]

Cascade(col) ==
    LET byModel == FilledWithin(Input(col), {"Make", "Model"})
        byMake  == FilledWithin(byModel, {"Make"})
    IN  [i \in 1..Len(byMake) |->
            IF byMake[i] # NaN THEN byMake[i] ELSE Median(byMake)]

\* C6 (cascading group-median value): once fill_missing has run, a cell of a
\* treated column that was zero or null in the input holds the median of its
\* (make, model) rows' observations, else the median of the column within its
\* make, else the global median of the column.
C6_CascadeValue ==
    Past("fill_missing") =>
        \A col \in TreatedColumns : \A i \in 1..Len(WARows) :
            ~Observed(WARows[i][col])
            => dt.rows[i][NewName(col)] = Cascade(col)[i]

\* The cascade value of C6 on the files in which no retained row lacks a make
\* or a model: there the script computes it.
CascadeValueWithKeys ==
    (\A i \in 1..Len(WARows) : WARows[i]["Make"] # NA /\ WARows[i]["Model"] # NA)
    => C6_CascadeValue

\* The scenario of C6: base_msrp zero beside a row of the same make and model
\* with 45000 ends as 45000.
CascadeWitness ==
    /\ Past("fill_missing")
    /\ \E i, j \in 1..Len(WARows) :
        /\ WARows[i]["Make"] = WARows[j]["Make"]
        /\ WARows[i]["Model"] = WARows[j]["Model"]
        /\ WARows[i]["Base MSRP"] = "0.0"
        /\ WARows[j]["Base MSRP"] = "45000"
        /\ dt.rows[i].base_msrp = <<45000 * Unit>>

\* The five dimensions: the statement that builds each, its defining columns
\* and its surrogate key.
Dimensions ==
    { [stage |-> "dim_vehicle_model", cols |-> VehicleModelColumns,
       id |-> "vehicle_model_id"],
      [stage |-> "dim_location", cols |-> LocationColumns, id |-> "location_id"],
      [stage |-> "dim_policy_eligibility", cols |-> PolicyColumns,
       id |-> "policy_id"],
      [stage |-> "dim_district", cols |-> DistrictColumns, id |-> "district_id"],
      [stage |-> "dim_utility", cols |-> UtilityColumns, id |-> "utility_id"] }

\* C2 (join completeness): once a dimension is merged, every row of the main
\* table has a non-null foreign key that is the surrogate key of exactly one
\* dimension row, and that row holds the main row's defining values, a null
\* defining value matching null.
C2_JoinComplete ==
    \A d \in Dimensions :
        Past(d.stage) =>
            \A i \in 1..Len(dt.rows) :
                LET t    == FrameOf(d.stage).rows
                    fk   == dt.rows[i][d.id]
                    hits == {k \in 1..Len(t) : <<t[k][d.id]>> = fk}
                IN  /\ fk # NaN
                    /\ Cardinality(hits) = 1
                    /\ \A k \in hits :
                        Project(t[k], d.cols) = Project(dt.rows[i], d.cols)

C2_Witness ==
    /\ pc = "done"
    /\ Len(Dim_Location.rows) >= 2
    /\ \E i \in 1..Len(dt.rows) :
        /\ dt.rows[i].latitude = NaN
        /\ dt.rows[i].longitude = NaN
        /\ dt.rows[i].legislative_district = NA
        /\ dt.rows[i].location_id # NaN
        /\ dt.rows[i].district_id # NaN

\* C3 (row-count preservation): from the jurisdiction filter on the main
\* table has as many rows as the file has WA rows, through every merge, and
\* Fact_EV has one row per retained source row, in order, with its vin and
\* dol_vehicle_id.
C3_RowCount ==
    /\ Past("read_csv") => Len(dt.rows) = Len(WARows)
    /\ Past("fact_ev") =>
        /\ Len(Fact_EV.rows) = Len(WARows)
        /\ \A i \in 1..Len(WARows) :
            /\ Fact_EV.rows[i].vin = WARows[i]["VIN (1-10)"]
            /\ Fact_EV.rows[i].dol_vehicle_id = WARows[i]["DOL Vehicle ID"]

C3_Witness ==
    /\ pc = "done"
    /\ Len(csv) = 3
    /\ Len(Fact_EV.rows) = 2
    /\ Fact_EV.rows[1].vin = Fact_EV.rows[2].vin
    /\ Fact_EV.rows[1].dol_vehicle_id # Fact_EV.rows[2].dol_vehicle_id
    /\ Len(Dim_Location.rows) = 2

\* Where a combination of defining columns first occurs in the main table.
FirstRow(c, cols) ==
    Least({i \in 1..Len(dt.rows) : Project(dt.rows[i], cols) = c})

\* C4 (surrogate-key density and order): a dimension has one row per distinct
\* combination of its defining columns in the main table, row k has key k,
\* and the rows are in first-occurrence order of their combinations; Fact_EV
\* has ev_id 1..M in row order, M the number of retained source rows.
C4_KeyDensity ==
    /\ \A d \in Dimensions :
        Past(d.stage) =>
            LET t      == FrameOf(d.stage).rows
                combos == {Project(dt.rows[i], d.cols) : i \in 1..Len(dt.rows)}
            IN  /\ Len(t) = Cardinality(combos)
                /\ \A k \in 1..Len(t) :
                    /\ t[k][d.id] = k
                    /\ Project(t[k], d.cols) \in combos
                    /\ \A l \in 1..(k - 1) :
                        FirstRow(Project(t[l], d.cols), d.cols)
                            < FirstRow(Project(t[k], d.cols), d.cols)
    /\ Past("fact_ev") =>
        /\ Len(Fact_EV.rows) = Len(WARows)
        /\ \A i \in 1..Len(Fact_EV.rows) : Fact_EV.rows[i].ev_id = i

C4_Witness ==
    /\ pc = "done"
    /\ Len(csv) = 3
    /\ csv[1]["State"] = "WA" /\ csv[2]["State"] # "WA" /\ csv[3]["State"] = "WA"
    /\ Len(Dim_Vehicle_model.rows) = 2
    /\ Dim_Vehicle_model.rows[2].vehicle_model_id = 2
    /\ Fact_EV.rows[2].ev_id = 2

\* C5 (dimension uniqueness): no two rows of a dimension agree on all its
\* defining columns, two nulls counting as equal; and two rows of the main
\* table equal in the Vehicle Model defining columns give fact rows with the
\* same vehicle_model_id.
C5_DimensionUnique ==
    /\ \A d \in Dimensions :
        Past(d.stage) =>
            LET t == FrameOf(d.stage).rows
            IN  \A k, l \in 1..Len(t) :
                    k # l => Project(t[k], d.cols) # Project(t[l], d.cols)
    /\ Past("fact_ev") =>
        \A i, j \in 1..Len(dt.rows) :
            Project(dt.rows[i], VehicleModelColumns)
                = Project(dt.rows[j], VehicleModelColumns)
            => Fact_EV.rows[i].vehicle_model_id = Fact_EV.rows[j].vehicle_model_id

C5_Witness ==
    /\ pc = "done"
    /\ Len(WARows) = 3
    /\ WARows[1]["Base MSRP"] = "0"
    /\ WARows[2]["Make"] = "KIA"
    /\ WARows[3]["Base MSRP"] = "45000"
    /\ Len(Dim_Vehicle_model.rows) = 2
    /\ Fact_EV.rows[1].vehicle_model_id = <<1>>
    /\ Fact_EV.rows[3].vehicle_model_id = <<1>>

\* C7 (categorical encoding): the encoding step replaces the two ev_type
\* literals by "1" and "2" and the three cafv_eligibility literals by "1",
\* "2" and "3", and leaves every other value of the two columns, every other
\* column, the rows and the index as they were.
C7_Encoding ==
    [][pc = "encode" =>
        /\ dt'.index = dt.index
        /\ Len(dt'.rows) = Len(dt.rows)
        /\ \A i \in 1..Len(dt.rows) :
            dt'.rows[i] =
                [dt.rows[i] EXCEPT
                    !.ev_type =
                        IF @ = "Battery Electric Vehicle (BEV)" THEN "1"
                        ELSE IF @ = "Plug-in Hybrid Electric Vehicle (PHEV)" THEN "2"
                        ELSE @,
                    !.cafv_eligibility =
                        IF @ = "Clean Alternative Fuel Vehicle Eligible" THEN "1"
                        ELSE IF @ = "Not eligible due to low battery range" THEN "2"
                        ELSE IF @ = "Eligibility unknown as battery range has not been researched"
                        THEN "3"
                        ELSE @]]_vars

C7_Witness ==
    /\ Past("encode")
    /\ Len(dt.rows) = 3
    /\ dt.rows[1].ev_type = "1" /\ dt.rows[1].cafv_eligibility = "1"
    /\ dt.rows[2].ev_type = NA /\ dt.rows[2].cafv_eligibility = "Unknown text"
    /\ dt.rows[3].ev_type = "battery electric vehicle (bev)"
    /\ dt.rows[3].cafv_eligibility = "3"

\* A run of the characters a token of the pattern is made of.
IsToken(s) == s # <<>> /\ \A n \in 1..Len(s) : s[n] \in TokenChars

\* The text is 'POINT (<a> <b>)'.
PointOf(a, b) == PatternHead \o a \o <<" ">> \o b \o <<")">>

\* The text from position i on starts with 'POINT (<a> <b>)', a ending at
\* position p and b at position q.
PointAt(t, i, p, q) ==
    /\ i + Len(PatternHead) - 1 <= Len(t)
    /\ SubSeq(t, i, i + Len(PatternHead) - 1) = PatternHead
    /\ p < q /\ q < Len(t)
    /\ IsToken(SubSeq(t, i + Len(PatternHead), p))
    /\ IsToken(SubSeq(t, p + 2, q))
    /\ t[p + 1] = " "
    /\ t[q + 1] = ")"

\* The pattern matches somewhere in the text.
Matches(t) == \E i, p, q \in 1..Len(t) : PointAt(t, i, p, q)

\* C8 (geo extraction): when the extraction has run, the main table has a
\* row per retained source row (none is dropped, whatever its text); a
\* location 'POINT (<a> <b>)' has a in latitude and b in longitude; a
\* location that is absent (and replaced by 'POINT EMPTY'), or that the
\* pattern does not match, has null latitude and longitude.
C8_GeoExtraction ==
    pc = "replace_zero" =>
        /\ Len(dt.rows) = Len(WARows)
        /\ \A i \in 1..Len(WARows) :
            LET t == WARows[i]["Vehicle Location"]
            IN  /\ \A p, q \in 1..Len(t) :
                    (PointAt(t, 1, p, q) /\ q + 1 = Len(t))
                    => /\ t = PointOf(dt.rows[i].latitude, dt.rows[i].longitude)
                       /\ dt.rows[i].latitude = SubSeq(t, Len(PatternHead) + 1, p)
                       /\ dt.rows[i].longitude = SubSeq(t, p + 2, q)
                /\ (t = NaN \/ ~Matches(t))
                    => /\ dt.rows[i].latitude = NaN
                       /\ dt.rows[i].longitude = NaN
                /\ t = NaN => dt.rows[i].vehicle_location = PointEmpty

C8_Witness ==
    /\ pc = "replace_zero"
    /\ Len(dt.rows) = 3
    /\ dt.rows[1].latitude = <<"-", "1", "2", "2", ".", "3">>
    /\ dt.rows[1].longitude = <<"4", "7", ".", "6">>
    /\ dt.rows[2].vehicle_location = PointEmpty
    /\ dt.rows[2].latitude = NaN /\ dt.rows[2].longitude = NaN
    /\ WARows[3]["Vehicle Location"] # NaN
    /\ dt.rows[3].latitude = NaN /\ dt.rows[3].longitude = NaN

\* C9 (no partial load on a pre-load failure): a table of the sink is written
\* only once the transformations and the configuration read are done; a run
\* that ended on a cast or on the configuration read has left the six tables
\* untouched; the tables are written in the order dim_vehicle_model,
\* dim_location, dim_policy_eligibility, dim_district, dim_utility, fact_ev.
C9_NoPartialLoad ==
    LET order == <<"dim_vehicle_model", "dim_location", "dim_policy_eligibility",
                   "dim_district", "dim_utility", "fact_ev">>
    IN  /\ writes # <<>> => Position >= StageNo("to_sql")
        /\ (pc = "failed" /\ error \in {"ValueError", "FileNotFoundError", "KeyError"})
            => \A t \in SinkTables : sink[t] = Untouched
        /\ Len(writes) <= Len(order)
        /\ writes = SubSeq(order, 1, Len(writes))
        /\ \A t \in SinkTables :
            sink[t].replaced <=> \E n \in 1..Len(writes) : writes[n] = t

C9_Witness ==
    /\ pc = "failed"
    /\ error = "ValueError"
    /\ \E i \in 1..Len(WARows) : WARows[i]["Model Year"] = "abc"
    /\ \A t \in SinkTables : sink[t] = Untouched

====
